---- MODULE Spec2Model ----
(***************************************************************************)
(* A model of decor/decorators.py: the retryable decorator (the retry      *)
(* loop of with_retry and the configuration retryable builds), the         *)
(* lazy_property decorator and the memoized decorator.                     *)
(*                                                                         *)
(* The caller-supplied callables (the wrapped operation and the hooks) are *)
(* the environment: every invocation of one of them is appended to the     *)
(* history variable events, in the order the code makes the calls.         *)
(***************************************************************************)
EXTENDS Integers, Sequences, FiniteSets, TLC

\* ------------------------------------------------------------------ bounds

\* max_retries arguments range over -NegRetries .. MaxRetries (and None).
MaxRetries == 3
NegRetries == 2
\* sleep_times arguments are the lists of 0 .. MaxSchedule durations.
MaxSchedule == 4
\* attribute operations made on a class_property
MaxPropOps == 3
\* calls made of a function wrapped by timed
MaxTimedCalls == 3

\* --------------------------------------------------------- program constants

\* decorators.py:166, the max_retries used when the argument is None
DefaultMaxRetries == 3

\* decorators.py:171-175, the sleep_times used when the argument is falsy
DefaultSleepTimes == <<0, 1, 2>>

\* decorators.py:163, the handled types used when the argument is falsy
DefaultHandledExceptionTypes == {"Exception"}

\* ------------------------------------------------------------ the environment

\* The failure kinds the wrapped operation (or a hook) may raise.  ValueError
\* derives from Exception; KeyboardInterrupt derives from BaseException only.
ExceptionKinds == {"ValueError"}
Kinds == ExceptionKinds \cup {"KeyboardInterrupt"}

\* The types a caller may list in handled_exception_types.
HandledTypeArgs == SUBSET Kinds

\* The values the wrapped operation may return.
RetValues == {"r1", "r2"}

\* The duration a caller-supplied sleep_time_callback may return.
CustomDurations == {9}

\* The i-th entry of a caller-supplied sleep_times list.
ScheduleEntry(i) == 10 + i
SleepTimesArgs == {[i \in 1..n |-> ScheduleEntry(i)] : n \in 0..MaxSchedule}

\* An optional integer argument: None, or an int.
NoneArg == [some |-> FALSE, v |-> 0]
IntArg(n) == [some |-> TRUE, v |-> n]
MaxRetriesArgs == {NoneArg} \cup {IntArg(n) : n \in (0 - NegRetries)..MaxRetries}

\* A failure object: its kind, who raised it, and during which attempt.
\* Two raises are two objects, told apart by (by, at).
Exc(kind, by, at) == [kind |-> kind, by |-> by, at |-> at]
NoneExc == Exc("None", "none", 0)

\* One entry of the call history.
Ev(ev, n, exc, d, val) == [ev |-> ev, n |-> n, exc |-> exc, d |-> d, val |-> val]

VARIABLES
    \* retryable: the configuration closed over at decoration time
    max_retries,              \* decorators.py:165-166
    max_attempts,             \* decorators.py:168
    handled_exception_types,  \* decorators.py:162-163
    sleep_times,              \* decorators.py:170-175
    custom_should_retry,      \* TRUE iff should_retry_callback was supplied
    custom_sleep_time,        \* TRUE iff sleep_time_callback was supplied
    \* with_retry: the locals of one call
    pc,                       \* position in with_retry
    attempt,                  \* decorators.py:220
    last_exception,           \* decorators.py:221
    e,                        \* the exception bound by the except clause
    result,                   \* decorators.py:225
    sleep_time,               \* decorators.py:245
    outcome,                  \* how the call ended: returned value / raised failure
    events,                   \* every call made to a caller-supplied callable
    \* lazy_property: the `_<name>` attribute of each instance, and each
    \* thread's position in with_memoization
    lp_slot,                  \* decorators.py:58, 62-68
    lp_pc,
    lp_self,
    lp_tmp,                   \* the value receiver(self) returned, not yet stored
    lp_computed,              \* per instance, the values receiver(self) returned
    lp_log,                   \* the completed accesses
    \* memoized: the dict objects, the `_cache` attribute of each instance,
    \* and each thread's position in with_memoization
    mz_heap,                  \* the dicts created at decorators.py:109
    mz_cacheref,              \* self._cache: 0 (no attribute) or a dict of mz_heap
    mz_pc,
    mz_frame,                 \* self, receiver, args, cache, key of the call, and
                              \* whether it has invoked the receiver
    mz_tmp,                   \* the value receiver(self, *args) returned
    mz_calls,                 \* the receiver invocations made
    mz_log,                   \* the completed calls
    \* class_property: the attribute dictionaries that can hold the name
    cp_dict,                  \* per class and per instance, what its __dict__
                              \* holds under the property's name
    cp_log,                   \* the attribute operations made and how they ended
    \* timed: the decorator's arguments, its closure, and with_timing's position
    tm_stats_client,          \* the stats_client argument
    tm_prefix_arg,            \* the prefix argument
    tm_sample_rate_arg,       \* the sample_rate argument
    tm_decorated,             \* "no", "yes", or "AssertionError"
    tm_prefix,                \* the prefix after decorators.py:280
    tm_sample_rate,           \* the sample rate after decorators.py:281
    tm_pc,
    tm_clock,                 \* time.time(), in whole seconds
    tm_start_time,
    tm_stat_name,
    tm_result,                \* what the receiver returned or raised
    tm_samples,               \* the record_timing calls the sink has received
    tm_log                    \* the completed calls of the wrapper

retryVars == <<max_retries, max_attempts, handled_exception_types, sleep_times,
               custom_should_retry, custom_sleep_time, pc, attempt,
               last_exception, e, result, sleep_time, outcome, events>>

lazyVars == <<lp_slot, lp_pc, lp_self, lp_tmp, lp_computed, lp_log>>

memoVars == <<mz_heap, mz_cacheref, mz_pc, mz_frame, mz_tmp, mz_calls, mz_log>>

classVars == <<cp_dict, cp_log>>

timedVars == <<tm_stats_client, tm_prefix_arg, tm_sample_rate_arg, tm_decorated,
               tm_prefix, tm_sample_rate, tm_pc, tm_clock, tm_start_time,
               tm_stat_name, tm_result, tm_samples, tm_log>>

vars == <<retryVars, lazyVars, memoVars, classVars, timedVars>>

\* ------------------------------------------------------- retryable (config)

\* decorators.py:165-166
MaxRetriesOf(arg) == IF ~arg.some THEN DefaultMaxRetries ELSE arg.v

\* a faulty variant: one attempt too many
MaxAttemptsOf_PlusTwo(mr) == mr + 2

\* decorators.py:168
MaxAttemptsOf(mr) == mr + 1

\* decorators.py:162-163 (an empty collection is falsy)
HandledOf(arg) == IF arg = {} THEN DefaultHandledExceptionTypes ELSE arg

\* decorators.py:170-175 (an empty list is falsy)
SleepTimesOf(arg) == IF arg = <<>> THEN DefaultSleepTimes ELSE arg

\* a faulty variant: a catch-all except clause
IsHandled_CatchAll(kind, types) == TRUE

\* decorators.py:232, `except tuple(handled_exception_types)`: isinstance match
IsHandled(kind, types) ==
    \/ kind \in types
    \/ "Exception" \in types /\ kind \in ExceptionKinds

\* a faulty variant: off by one: attempt <= max_attempts
DefaultShouldRetry_OffByOne(att, maxAtt) == att <= maxAtt

\* decorators.py:197-203, the default should_retry_callback
DefaultShouldRetry(att, maxAtt) == att < maxAtt

\* decorators.py:205-211, the default sleep_time_callback: sleep_times[i].
\* i is never negative here (attempt >= 1), so the lookup is in range iff
\* i < len(sleep_times).
SleepIndexInRange(i, times) == i >= 0 /\ i < Len(times)
DefaultSleepTime(i, times) == times[i + 1]

\* a faulty variant: the raw attempt number as the index
SleepIndex_Raw(att) == att

\* decorators.py:245-249, the index with_retry hands to sleep_time_callback
SleepIndex(att) == att - 1

\* a faulty variant: `while True`: only the predicate ends the loop
LoopCondition_Always(att, maxAtt) == TRUE

\* decorators.py:222, the loop condition
LoopCondition(att, maxAtt) == att < maxAtt

\* a faulty variant: a new failure raised in place of the last one seen
FinalFailure_Wrapped(le, att) == Exc("RetryError", "raise", att)

\* decorators.py:256, `raise last_exception`; `raise None` is a TypeError
FinalFailure(le, att) ==
    IF le = NoneExc THEN Exc("TypeError", "raise", att) ELSE le

NoOutcome == [how |-> "none", val |-> "", exc |-> NoneExc]
Returned(v) == [how |-> "returned", val |-> v, exc |-> NoneExc]
Raised(x) == [how |-> "raised", val |-> "", exc |-> x]

RetryInit ==
    /\ \E mr \in MaxRetriesArgs :
          /\ max_retries = MaxRetriesOf(mr)
          /\ max_attempts = MaxAttemptsOf(MaxRetriesOf(mr))
    /\ \E h \in HandledTypeArgs : handled_exception_types = HandledOf(h)
    /\ \E s \in SleepTimesArgs : sleep_times = SleepTimesOf(s)
    /\ custom_should_retry \in BOOLEAN
    /\ custom_sleep_time \in BOOLEAN
    /\ pc = "idle"
    /\ attempt = 0
    /\ last_exception = NoneExc
    /\ e = NoneExc
    /\ result = ""
    /\ sleep_time = 0
    /\ outcome = NoOutcome
    /\ events = <<>>

cfgVars == <<max_retries, max_attempts, handled_exception_types, sleep_times,
             custom_should_retry, custom_sleep_time>>

\* ----------------------------------------------------- with_retry (one call)

\* decorators.py:220-221
Call ==
    /\ pc = "idle"
    /\ attempt' = 0
    /\ last_exception' = NoneExc
    /\ pc' = "loop"
    /\ UNCHANGED <<lazyVars, memoVars, classVars, timedVars, cfgVars, e, result, sleep_time, outcome, events>>

\* decorators.py:222-229, the operation returns normally
OpReturns ==
    /\ pc = "loop"
    /\ LoopCondition(attempt, max_attempts)
    /\ attempt' = attempt + 1
    /\ \E v \in RetValues :
          /\ result' = v
          /\ events' = Append(events, Ev("op", attempt + 1, NoneExc, 0, v))
    /\ pc' = "success"
    /\ UNCHANGED <<lazyVars, memoVars, classVars, timedVars, cfgVars, last_exception, e, sleep_time, outcome>>

\* decorators.py:222-233, the operation raises a failure of a handled kind
OpRaisesHandled ==
    /\ pc = "loop"
    /\ LoopCondition(attempt, max_attempts)
    /\ attempt' = attempt + 1
    /\ \E k \in Kinds :
          /\ IsHandled(k, handled_exception_types)
          /\ e' = Exc(k, "op", attempt + 1)
          /\ last_exception' = e'
          /\ events' = Append(events, Ev("op", attempt + 1, e', 0, ""))
    /\ pc' = "except"
    /\ UNCHANGED <<lazyVars, memoVars, classVars, timedVars, cfgVars, result, sleep_time, outcome>>

\* decorators.py:222-232, the operation raises a failure no except clause
\* matches: it leaves with_retry
OpRaisesUnhandled ==
    /\ pc = "loop"
    /\ LoopCondition(attempt, max_attempts)
    /\ attempt' = attempt + 1
    /\ \E k \in Kinds :
          /\ ~IsHandled(k, handled_exception_types)
          /\ events' = Append(events, Ev("op", attempt + 1, Exc(k, "op", attempt + 1), 0, ""))
          /\ outcome' = Raised(Exc(k, "op", attempt + 1))
    /\ pc' = "done"
    /\ UNCHANGED <<lazyVars, memoVars, classVars, timedVars, cfgVars, last_exception, e, result, sleep_time>>

\* decorators.py:230-231, on_success_callback returns, then `return result`
OnSuccessReturns ==
    /\ pc = "success"
    /\ events' = Append(events, Ev("on_success", attempt, NoneExc, 0, ""))
    /\ outcome' = Returned(result)
    /\ pc' = "done"
    /\ UNCHANGED <<lazyVars, memoVars, classVars, timedVars, cfgVars, attempt, last_exception, e, result, sleep_time>>

\* decorators.py:230-233, on_success_callback raises inside the try block and
\* the except clause matches
OnSuccessRaisesHandled ==
    /\ pc = "success"
    /\ \E k \in Kinds :
          /\ IsHandled(k, handled_exception_types)
          /\ e' = Exc(k, "on_success", attempt)
          /\ last_exception' = e'
          /\ events' = Append(events, Ev("on_success", attempt, e', 0, ""))
    /\ pc' = "except"
    /\ UNCHANGED <<lazyVars, memoVars, classVars, timedVars, cfgVars, attempt, result, sleep_time, outcome>>

\* decorators.py:230-232, on_success_callback raises and no clause matches
OnSuccessRaisesUnhandled ==
    /\ pc = "success"
    /\ \E k \in Kinds :
          /\ ~IsHandled(k, handled_exception_types)
          /\ events' = Append(events, Ev("on_success", attempt, Exc(k, "on_success", attempt), 0, ""))
          /\ outcome' = Raised(Exc(k, "on_success", attempt))
    /\ pc' = "done"
    /\ UNCHANGED <<lazyVars, memoVars, classVars, timedVars, cfgVars, attempt, last_exception, e, result, sleep_time>>

\* decorators.py:234-239, should_retry_callback(self, attempt, e).  val records
\* the answer.  A supplied predicate may answer anything.
ShouldRetry ==
    /\ pc = "except"
    /\ \E b \in BOOLEAN :
          /\ custom_should_retry \/ b = DefaultShouldRetry(attempt, max_attempts)
          /\ events' = Append(events, Ev("should_retry", attempt, e, 0, IF b THEN "True" ELSE "False"))
          /\ pc' = IF b THEN "on_retry" ELSE "exhausted"
    /\ UNCHANGED <<lazyVars, memoVars, classVars, timedVars, cfgVars, attempt, last_exception, e, result, sleep_time, outcome>>

\* a faulty variant: the retry is taken without calling on_retry_callback
OnRetry_Skipped ==
    /\ pc = "on_retry"
    /\ pc' = "sleep_time"
    /\ UNCHANGED <<lazyVars, memoVars, classVars, timedVars, cfgVars, attempt, last_exception, e, result, sleep_time, outcome, events>>

\* decorators.py:240-244
OnRetry ==
    /\ pc = "on_retry"
    /\ events' = Append(events, Ev("on_retry", attempt, e, 0, ""))
    /\ pc' = "sleep_time"
    /\ UNCHANGED <<lazyVars, memoVars, classVars, timedVars, cfgVars, attempt, last_exception, e, result, sleep_time, outcome>>

\* decorators.py:245-249 with a supplied sleep_time_callback
SleepTimeCustom ==
    /\ pc = "sleep_time"
    /\ custom_sleep_time
    /\ \E d \in CustomDurations :
          /\ sleep_time' = d
          /\ events' = Append(events, Ev("sleep_time", SleepIndex(attempt), e, d, ""))
    /\ pc' = "sleep"
    /\ UNCHANGED <<lazyVars, memoVars, classVars, timedVars, cfgVars, attempt, last_exception, e, result, outcome>>

\* decorators.py:245-249 with the default callback, index in range
SleepTimeDefault ==
    /\ pc = "sleep_time"
    /\ ~custom_sleep_time
    /\ SleepIndexInRange(SleepIndex(attempt), sleep_times)
    /\ sleep_time' = DefaultSleepTime(SleepIndex(attempt), sleep_times)
    /\ events' = Append(events, Ev("sleep_time", SleepIndex(attempt), e, sleep_time', ""))
    /\ pc' = "sleep"
    /\ UNCHANGED <<lazyVars, memoVars, classVars, timedVars, cfgVars, attempt, last_exception, e, result, outcome>>

\* decorators.py:211, 245-249: the default callback's lookup raises IndexError
\* inside the except clause, which leaves with_retry
SleepTimeIndexError ==
    /\ pc = "sleep_time"
    /\ ~custom_sleep_time
    /\ ~SleepIndexInRange(SleepIndex(attempt), sleep_times)
    /\ events' = Append(events, Ev("sleep_time", SleepIndex(attempt), e, 0, "IndexError"))
    /\ outcome' = Raised(Exc("IndexError", "sleep_time_callback", attempt))
    /\ pc' = "done"
    /\ UNCHANGED <<lazyVars, memoVars, classVars, timedVars, cfgVars, attempt, last_exception, e, result, sleep_time>>

\* decorators.py:250
Sleep ==
    /\ pc = "sleep"
    /\ events' = Append(events, Ev("sleep", attempt, NoneExc, sleep_time, ""))
    /\ pc' = "loop"
    /\ UNCHANGED <<lazyVars, memoVars, classVars, timedVars, cfgVars, attempt, last_exception, e, result, sleep_time, outcome>>

\* decorators.py:222, the loop condition is false
LoopExit ==
    /\ pc = "loop"
    /\ ~LoopCondition(attempt, max_attempts)
    /\ pc' = "exhausted"
    /\ UNCHANGED <<lazyVars, memoVars, classVars, timedVars, cfgVars, attempt, last_exception, e, result, sleep_time, outcome, events>>

\* decorators.py:251-256: on_failure_callback, then `raise last_exception`;
\* `raise None` is a TypeError
OnFailureAndRaise ==
    /\ pc = "exhausted"
    /\ events' = Append(events, Ev("on_failure", attempt, last_exception, 0, ""))
    /\ outcome' = Raised(FinalFailure(last_exception, attempt))
    /\ pc' = "done"
    /\ UNCHANGED <<lazyVars, memoVars, classVars, timedVars, cfgVars, attempt, last_exception, e, result, sleep_time>>

RetryNext ==
    \/ Call
    \/ OpReturns
    \/ OpRaisesHandled
    \/ OpRaisesUnhandled
    \/ OnSuccessReturns
    \/ OnSuccessRaisesHandled
    \/ OnSuccessRaisesUnhandled
    \/ ShouldRetry
    \/ OnRetry
    \/ SleepTimeCustom
    \/ SleepTimeDefault
    \/ SleepTimeIndexError
    \/ Sleep
    \/ LoopExit
    \/ OnFailureAndRaise


\* ------------------------------------------------------------ lazy_property

\* Bounds: how many accesses / calls one behaviour makes.
MaxAccesses == 4
MaxCalls == 2

Instances == {"a", "b"}
Threads == {"t1", "t2"}
MainThread == "t1"

\* What a wrapped function may return; None is a value like any other.
Values == {"None", "v1", "v2"}
\* An instance without the attribute.
Absent == "<absent>"

\* a faulty variant: a truthiness test of the stored value in place of hasattr
HasSlot_Truthy(slot) == slot \notin {Absent, "None"}

\* decorators.py:62, hasattr(self, key)
HasSlot(slot) == slot # Absent

LazyInit ==
    /\ lp_slot = [i \in Instances |-> Absent]
    /\ lp_pc = [t \in Threads |-> "idle"]
    /\ lp_self = [t \in Threads |-> "a"]
    /\ lp_tmp = [t \in Threads |-> Absent]
    /\ lp_computed = [i \in Instances |-> <<>>]
    /\ lp_log = <<>>

LazyStarted == Len(lp_log) + Cardinality({t \in Threads : lp_pc[t] # "idle"})

\* reading the property on instance i: property.__get__ enters
\* with_memoization(self), decorators.py:61
LazyAccess(t, i) ==
    /\ lp_pc[t] = "idle"
    /\ LazyStarted < MaxAccesses
    /\ lp_pc' = [lp_pc EXCEPT ![t] = "hasattr"]
    /\ lp_self' = [lp_self EXCEPT ![t] = i]
    /\ UNCHANGED <<retryVars, memoVars, classVars, timedVars, lp_slot, lp_tmp, lp_computed, lp_log>>

\* decorators.py:62
LazyHasAttr(t) ==
    /\ lp_pc[t] = "hasattr"
    /\ lp_pc' = [lp_pc EXCEPT ![t] =
                    IF HasSlot(lp_slot[lp_self[t]]) THEN "getattr" ELSE "receiver"]
    /\ UNCHANGED <<retryVars, memoVars, classVars, timedVars, lp_slot, lp_self, lp_tmp, lp_computed, lp_log>>

\* decorators.py:66, receiver(self): whatever the function yields now
LazyReceiver(t) ==
    /\ lp_pc[t] = "receiver"
    /\ \E v \in Values :
          /\ lp_tmp' = [lp_tmp EXCEPT ![t] = v]
          /\ lp_computed' = [lp_computed EXCEPT ![lp_self[t]] = Append(@, v)]
    /\ lp_pc' = [lp_pc EXCEPT ![t] = "setattr"]
    /\ UNCHANGED <<retryVars, memoVars, classVars, timedVars, lp_slot, lp_self, lp_log>>

\* decorators.py:63-67, setattr(self, key, <value>)
LazySetAttr(t) ==
    /\ lp_pc[t] = "setattr"
    /\ lp_slot' = [lp_slot EXCEPT ![lp_self[t]] = lp_tmp[t]]
    /\ lp_pc' = [lp_pc EXCEPT ![t] = "getattr"]
    /\ UNCHANGED <<retryVars, memoVars, classVars, timedVars, lp_self, lp_tmp, lp_computed, lp_log>>

\* decorators.py:68, return getattr(self, key)
LazyGetAttr(t) ==
    /\ lp_pc[t] = "getattr"
    /\ lp_log' = Append(lp_log, [inst |-> lp_self[t], ret |-> lp_slot[lp_self[t]],
                                 thread |-> t])
    /\ lp_pc' = [lp_pc EXCEPT ![t] = "idle"]
    /\ UNCHANGED <<retryVars, memoVars, classVars, timedVars, lp_slot, lp_self, lp_tmp, lp_computed>>

\* One thread: an access runs to its end before the next one starts.
LazySeqNext ==
    \/ \E i \in Instances : LazyAccess(MainThread, i)
    \/ LazyHasAttr(MainThread)
    \/ LazyReceiver(MainThread)
    \/ LazySetAttr(MainThread)
    \/ LazyGetAttr(MainThread)

\* ------------------------------------------------------------------ memoized

\* Python values given as arguments: ints, strs, and objects with a __dict__
\* (a list of (attribute name, int value) pairs; id tells two objects apart).
\* Text is a sequence of characters.
PyInt(n) == [t |-> "int", i |-> n, s |-> <<>>, d |-> <<>>, id |-> 0]
PyStr(cs) == [t |-> "str", i |-> 0, s |-> cs, d |-> <<>>, id |-> 0]
PyObj(id, d) == [t |-> "obj", i |-> 0, s |-> <<>>, d |-> d, id |-> id]

DigitChars == <<"0", "1", "2", "3", "4", "5", "6", "7", "8", "9">>

\* str(n) for an int
RECURSIVE NatToStr(_)
NatToStr(n) ==
    IF n < 10 THEN <<DigitChars[n + 1]>>
    ELSE NatToStr(n \div 10) \o <<DigitChars[(n % 10) + 1]>>
IntToStr(n) == IF n < 0 THEN <<"-">> \o NatToStr(0 - n) ELSE NatToStr(n)

\* repr(s) for a str without quotes or escapes
StrRepr(cs) == <<"'">> \o cs \o <<"'">>

\* str(d) for a dict {name: int}: "{'a': 1, 'b': 2}"
RECURSIVE DictItemsToStr(_)
DictItemsToStr(d) ==
    IF d = <<>> THEN <<>>
    ELSE StrRepr(d[1][1]) \o <<":", " ">> \o IntToStr(d[1][2])
         \o (IF Len(d) > 1 THEN <<",", " ">> ELSE <<>>)
         \o DictItemsToStr(Tail(d))
DictToStr(d) == <<"{">> \o DictItemsToStr(d) \o <<"}">>

\* decorators.py:93-94, hasattr(arg, '__dict__') and generate_arg_key
HasDict(arg) == arg.t = "obj"
PyStrOf(arg) ==
    CASE arg.t = "int" -> IntToStr(arg.i)
      [] arg.t = "str" -> arg.s
      [] arg.t = "obj" -> <<"<", "o", "b", "j", " ">> \o IntToStr(arg.id) \o <<">">>
generate_arg_key(arg) == IF ~HasDict(arg) THEN PyStrOf(arg) ELSE DictToStr(arg.d)

\* decorators.py:96-97
RECURSIVE generate_args_key(_)
generate_args_key(args) ==
    IF args = <<>> THEN <<>>
    ELSE generate_arg_key(Head(args)) \o generate_args_key(Tail(args))

\* decorators.py:103-104, receiver.__name__
generate_receiver_key(name) == name

\* decorators.py:99-101
generate_key(name, args) == generate_receiver_key(name) \o generate_args_key(args)

\* The memoized methods of the class, by name.
MethodNames == {<<"f">>, <<"f", "1">>}

I1 == PyInt(1)
I11 == PyInt(11)
S1 == PyStr(<<"1">>)
ObjA == PyObj(1, <<<<<<"x">>, 1>>>>)
ObjB == PyObj(2, <<<<<<"x">>, 1>>>>)

\* The argument lists the calls are made with.
ArgLists == {<<I1>>, <<S1>>, <<I11>>, <<I1, I11>>, <<I11, I1>>, <<ObjA>>, <<ObjB>>}

\* What receiver(self, *args) returns: a value that names the invocation that
\* produced it (ver: what the function yields at that time).
Versions == {"v1", "v2"}
ResultOf(inst, name, args, ver) == [inst |-> inst, name |-> name, args |-> args, ver |-> ver]

NoFrame == [self |-> "a", name |-> <<>>, args |-> <<>>, cache |-> 0, key |-> <<>>,
            computed |-> FALSE]
NoResult == ResultOf("a", <<>>, <<>>, "")

MemoInit ==
    /\ mz_heap = <<>>
    /\ mz_cacheref = [i \in Instances |-> 0]
    /\ mz_pc = [t \in Threads |-> "idle"]
    /\ mz_frame = [t \in Threads |-> NoFrame]
    /\ mz_tmp = [t \in Threads |-> NoResult]
    /\ mz_calls = <<>>
    /\ mz_log = <<>>

MemoStarted == Len(mz_log) + Cardinality({t \in Threads : mz_pc[t] # "idle"})

\* decorators.py:107, with_memoization(self, *args) is entered
MemoCall(t, i, name, args) ==
    /\ mz_pc[t] = "idle"
    /\ MemoStarted < MaxCalls
    /\ mz_frame' = [mz_frame EXCEPT ![t] =
                       [self |-> i, name |-> name, args |-> args, cache |-> 0, key |-> <<>>,
                        computed |-> FALSE]]
    /\ mz_pc' = [mz_pc EXCEPT ![t] = "hasattr"]
    /\ UNCHANGED <<retryVars, lazyVars, classVars, timedVars, mz_heap, mz_cacheref, mz_tmp, mz_calls, mz_log>>

\* a faulty variant: the cache is created anew on every call
HasCache_Never(ref) == FALSE

\* decorators.py:108, hasattr(self, '_cache')
HasCache(ref) == ref # 0

\* decorators.py:108
MemoHasAttr(t) ==
    /\ mz_pc[t] = "hasattr"
    /\ mz_pc' = [mz_pc EXCEPT ![t] =
                    IF HasCache(mz_cacheref[mz_frame[t].self]) THEN "load" ELSE "newcache"]
    /\ UNCHANGED <<retryVars, lazyVars, classVars, timedVars, mz_heap, mz_cacheref, mz_frame, mz_tmp, mz_calls, mz_log>>

\* decorators.py:109, self._cache = {}
MemoNewCache(t) ==
    /\ mz_pc[t] = "newcache"
    /\ mz_heap' = Append(mz_heap, <<>>)
    /\ mz_cacheref' = [mz_cacheref EXCEPT ![mz_frame[t].self] = Len(mz_heap) + 1]
    /\ mz_pc' = [mz_pc EXCEPT ![t] = "load"]
    /\ UNCHANGED <<retryVars, lazyVars, classVars, timedVars, mz_frame, mz_tmp, mz_calls, mz_log>>

\* decorators.py:110-111, cache = self._cache; key = generate_key(...)
MemoLoad(t) ==
    /\ mz_pc[t] = "load"
    /\ mz_frame' = [mz_frame EXCEPT
                       ![t].cache = mz_cacheref[mz_frame[t].self],
                       ![t].key = generate_key(mz_frame[t].name, mz_frame[t].args)]
    /\ mz_pc' = [mz_pc EXCEPT ![t] = "test"]
    /\ UNCHANGED <<retryVars, lazyVars, classVars, timedVars, mz_heap, mz_cacheref, mz_tmp, mz_calls, mz_log>>

\* decorators.py:112, key not in cache
KeyInCache(key, cache) == key \in DOMAIN cache

MemoTest(t) ==
    /\ mz_pc[t] = "test"
    /\ mz_pc' = [mz_pc EXCEPT ![t] =
                    IF KeyInCache(mz_frame[t].key, mz_heap[mz_frame[t].cache])
                    THEN "return" ELSE "receiver"]
    /\ UNCHANGED <<retryVars, lazyVars, classVars, timedVars, mz_heap, mz_cacheref, mz_frame, mz_tmp, mz_calls, mz_log>>

\* decorators.py:113, receiver(self, *args)
MemoReceiver(t) ==
    /\ mz_pc[t] = "receiver"
    /\ \E ver \in Versions :
          /\ mz_tmp' = [mz_tmp EXCEPT ![t] =
                ResultOf(mz_frame[t].self, mz_frame[t].name, mz_frame[t].args, ver)]
          /\ mz_calls' = Append(mz_calls, mz_tmp'[t])
    /\ mz_frame' = [mz_frame EXCEPT ![t].computed = TRUE]
    /\ mz_pc' = [mz_pc EXCEPT ![t] = "store"]
    /\ UNCHANGED <<retryVars, lazyVars, classVars, timedVars, mz_heap, mz_cacheref, mz_log>>

\* decorators.py:113, cache[key] = <value>
DictSet(cache, key, v) ==
    [k \in DOMAIN cache \cup {key} |-> IF k = key THEN v ELSE cache[k]]

MemoStore(t) ==
    /\ mz_pc[t] = "store"
    /\ mz_heap' = [mz_heap EXCEPT ![mz_frame[t].cache] =
                      DictSet(@, mz_frame[t].key, mz_tmp[t])]
    /\ mz_pc' = [mz_pc EXCEPT ![t] = "return"]
    /\ UNCHANGED <<retryVars, lazyVars, classVars, timedVars, mz_cacheref, mz_frame, mz_tmp, mz_calls, mz_log>>

\* decorators.py:114, return cache[key]
MemoReturn(t) ==
    /\ mz_pc[t] = "return"
    /\ mz_log' = Append(mz_log,
          [inst |-> mz_frame[t].self, name |-> mz_frame[t].name,
           args |-> mz_frame[t].args, key |-> mz_frame[t].key,
           ret |-> mz_heap[mz_frame[t].cache][mz_frame[t].key],
           computed |-> mz_frame[t].computed])
    /\ mz_pc' = [mz_pc EXCEPT ![t] = "idle"]
    /\ UNCHANGED <<retryVars, lazyVars, classVars, timedVars, mz_heap, mz_cacheref, mz_frame, mz_tmp, mz_calls>>

\* One thread: a call runs to its end before the next one starts.
MemoSeqNext ==
    \/ \E i \in Instances, name \in MethodNames, args \in ArgLists :
          MemoCall(MainThread, i, name, args)
    \/ MemoHasAttr(MainThread)
    \/ MemoNewCache(MainThread)
    \/ MemoLoad(MainThread)
    \/ MemoTest(MainThread)
    \/ MemoReceiver(MainThread)
    \/ MemoStore(MainThread)
    \/ MemoReturn(MainThread)

\* ----------------------------------------------------------- class_property

\* receiver.__name__, the name the decorated function is bound under
PropertyName == "prop"

\* The class whose body holds the decorated function, a subclass of it, and
\* an instance of the subclass.
Classes == {"Base", "Sub"}
Obj == "o"
Holders == Classes \cup {Obj}
TypeOf(obj) == "Sub"
Mro(cls) == IF cls = "Sub" THEN <<"Sub", "Base">> ELSE <<"Base">>

\* What a __dict__ holds under PropertyName.
NoAttr == [kind |-> "absent", v |-> ""]
PlainAttr(v) == [kind |-> "plain", v |-> v]
\* decorators.py:25-27, 45: the WrappedProperty instance
WrappedProperty == [kind |-> "WrappedProperty", v |-> PropertyName]
\* the values a caller assigns
AssignedValues == {"5"}

\* what an attribute operation can end with
CpReturned(v) == [how |-> "returned", v |-> v, msg |-> <<>>]
CpDone == [how |-> "done", v |-> <<>>, msg |-> <<>>]
AttributeError(msg) == [how |-> "AttributeError", v |-> <<>>, msg |-> msg]

\* the value the decorated function returns for a class
receiver(cls) == <<"receiver", cls>>
PlainValue(v) == <<"assigned", v>>

\* decorators.py:29-30
WrappedProperty__delete__(self, obj) == AttributeError(<<"Cannot delete \"", self.v, "\"">>)

\* decorators.py:32-37; "None" stands for obj or cls being None
WrappedProperty__get__(self, obj, cls) ==
    CpReturned(receiver(IF cls # "None" THEN cls ELSE TypeOf(obj)))

\* decorators.py:39-44
WrappedProperty__set__(self, obj, val) == AttributeError(<<"Cannot set \"", self.v, "\"">>)

\* the interpreter's own error for a name that is not found
NoSuchAttribute == AttributeError(<<"no attribute \"", PropertyName, "\"">>)

\* The first entry for PropertyName along the method resolution order of cls.
RECURSIVE LookupAlong(_, _)
LookupAlong(d, mro) ==
    IF mro = <<>> THEN NoAttr
    ELSE IF d[Head(mro)] # NoAttr THEN d[Head(mro)]
    ELSE LookupAlong(d, Tail(mro))

TypeLookup(d, cls) == LookupAlong(d, Mro(cls))

\* a faulty variant: the descriptor is not consulted on assignment or deletion
IsDataDescriptor_Never(attr) == FALSE

\* WrappedProperty defines __set__ and __delete__ (decorators.py:29, 39), so
\* attribute access on an instance gives it precedence over the instance.
IsDataDescriptor(attr) == attr.kind = "WrappedProperty"

ClassInit ==
    /\ cp_dict = [h \in Holders |-> IF h = "Base" THEN WrappedProperty ELSE NoAttr]
    /\ cp_log = <<>>

CpLog(op, via, res) == [op |-> op, via |-> via, res |-> res]

\* obj.prop
GetViaInstance ==
    /\ Len(cp_log) < MaxPropOps
    /\ LET attr == TypeLookup(cp_dict, TypeOf(Obj))
           res == IF attr.kind = "WrappedProperty"
                     THEN WrappedProperty__get__(attr, Obj, TypeOf(Obj))
                  ELSE IF cp_dict[Obj] # NoAttr THEN CpReturned(PlainValue(cp_dict[Obj].v))
                  ELSE IF attr # NoAttr THEN CpReturned(PlainValue(attr.v))
                  ELSE NoSuchAttribute
       IN  cp_log' = Append(cp_log, CpLog("get", Obj, res))
    /\ UNCHANGED <<retryVars, lazyVars, memoVars, timedVars, cp_dict>>

\* obj.prop = v
SetViaInstance ==
    /\ Len(cp_log) < MaxPropOps
    /\ \E v \in AssignedValues :
          LET attr == TypeLookup(cp_dict, TypeOf(Obj)) IN
             IF IsDataDescriptor(attr)
             THEN /\ cp_log' = Append(cp_log, CpLog("set", Obj, WrappedProperty__set__(attr, Obj, v)))
                  /\ UNCHANGED cp_dict
             ELSE /\ cp_dict' = [cp_dict EXCEPT ![Obj] = PlainAttr(v)]
                  /\ cp_log' = Append(cp_log, CpLog("set", Obj, CpDone))
    /\ UNCHANGED <<retryVars, lazyVars, memoVars, timedVars>>

\* del obj.prop
DelViaInstance ==
    /\ Len(cp_log) < MaxPropOps
    /\ LET attr == TypeLookup(cp_dict, TypeOf(Obj)) IN
          IF IsDataDescriptor(attr)
          THEN /\ cp_log' = Append(cp_log, CpLog("del", Obj, WrappedProperty__delete__(attr, Obj)))
               /\ UNCHANGED cp_dict
          ELSE IF cp_dict[Obj] # NoAttr
          THEN /\ cp_dict' = [cp_dict EXCEPT ![Obj] = NoAttr]
               /\ cp_log' = Append(cp_log, CpLog("del", Obj, CpDone))
          ELSE /\ cp_log' = Append(cp_log, CpLog("del", Obj, NoSuchAttribute))
               /\ UNCHANGED cp_dict
    /\ UNCHANGED <<retryVars, lazyVars, memoVars, timedVars>>

\* cls.prop: the descriptor's __get__ is called with obj None
GetViaClass(cls) ==
    /\ Len(cp_log) < MaxPropOps
    /\ LET attr == TypeLookup(cp_dict, cls)
           res == IF attr.kind = "WrappedProperty"
                     THEN WrappedProperty__get__(attr, "None", cls)
                  ELSE IF attr # NoAttr THEN CpReturned(PlainValue(attr.v))
                  ELSE NoSuchAttribute
       IN  cp_log' = Append(cp_log, CpLog("get", cls, res))
    /\ UNCHANGED <<retryVars, lazyVars, memoVars, timedVars, cp_dict>>

\* cls.prop = v: assignment on a class consults the metaclass only, never the
\* __set__ of an object found in the class's own __dict__
SetViaClass(cls) ==
    /\ Len(cp_log) < MaxPropOps
    /\ \E v \in AssignedValues :
          /\ cp_dict' = [cp_dict EXCEPT ![cls] = PlainAttr(v)]
          /\ cp_log' = Append(cp_log, CpLog("set", cls, CpDone))
    /\ UNCHANGED <<retryVars, lazyVars, memoVars, timedVars>>

\* del cls.prop: removes the entry of the class's own __dict__
DelViaClass(cls) ==
    /\ Len(cp_log) < MaxPropOps
    /\ IF cp_dict[cls] # NoAttr
       THEN /\ cp_dict' = [cp_dict EXCEPT ![cls] = NoAttr]
            /\ cp_log' = Append(cp_log, CpLog("del", cls, CpDone))
       ELSE /\ cp_log' = Append(cp_log, CpLog("del", cls, NoSuchAttribute))
            /\ UNCHANGED cp_dict
    /\ UNCHANGED <<retryVars, lazyVars, memoVars, timedVars>>

ClassPropertyNext ==
    \/ GetViaInstance
    \/ SetViaInstance
    \/ DelViaInstance
    \/ \E cls \in Classes : GetViaClass(cls)
    \/ \E cls \in Classes : SetViaClass(cls)
    \/ \E cls \in Classes : DelViaClass(cls)

\* -------------------------------------------------------------------- timed

\* decorators.py:281, the default sample rate 1.0; rates are in thousandths
DefaultSampleRate == 1000
\* decorators.py:297, seconds to milliseconds
MillisPerSecond == 1000

PyNone == [t |-> "NoneType", i |-> 0, s |-> <<>>, d |-> <<>>, id |-> 0]

\* The stats_client arguments: None, an object without record_timing, and an
\* object with it.
StatsClients == {"None", "NoRecordTiming", "StatsClient"}
\* The prefix arguments: None, the empty string, a string, an int.
PrefixArgs == {PyNone, PyStr(<<>>), PyStr(<<"a", "p", "p">>), PyInt(7)}
\* The sample_rate arguments: None, 0.0 and 0.5.
SampleRateArgs == {NoneArg, IntArg(0), IntArg(500)}
\* receiver.__name__
TimedReceiverName == <<"j", "o", "b">>
\* the seconds a call of the receiver can take
ReceiverSeconds == {0, 2}

\* a faulty variant: only the presence of the argument is tested
AssertHolds_Present(client) == client # "None"

\* decorators.py:278
AssertHolds(client) == client # "None" /\ client = "StatsClient"

\* a faulty variant: the prefix with no separator
PrefixOf_NoDot(arg) == IF arg # PyNone THEN PyStrOf(arg) ELSE <<>>

\* decorators.py:280
PrefixOf(arg) == IF arg # PyNone THEN PyStrOf(arg) \o <<".">> ELSE <<>>

\* a faulty variant: `sample_rate or 1.0`
SampleRateOf_Truthy(arg) == IF arg.some /\ arg.v # 0 THEN arg.v ELSE DefaultSampleRate

\* decorators.py:281
SampleRateOf(arg) == IF arg # NoneArg THEN arg.v ELSE DefaultSampleRate

\* decorators.py:290
StatName(prefix, name) == prefix \o name

\* decorators.py:297
TotalTime(start, now) == (now - start) * MillisPerSecond

TmEv(ev, val, exc) == [ev |-> ev, val |-> val, exc |-> exc, samples |-> tm_samples]

\* timed has not been called
TimedIdle ==
    /\ tm_stats_client = "None"
    /\ tm_prefix_arg = PyNone
    /\ tm_sample_rate_arg = NoneArg
    /\ tm_decorated = "no"
    /\ tm_prefix = <<>>
    /\ tm_sample_rate = 0
    /\ tm_pc = "idle"
    /\ tm_clock = 0
    /\ tm_start_time = 0
    /\ tm_stat_name = <<>>
    /\ tm_result = ""
    /\ tm_samples = <<>>
    /\ tm_log = <<>>

\* the arguments timed is about to be called with
TimedInit ==
    /\ tm_stats_client \in StatsClients
    /\ tm_prefix_arg \in PrefixArgs
    /\ tm_sample_rate_arg \in SampleRateArgs
    /\ tm_decorated = "no"
    /\ tm_prefix = <<>>
    /\ tm_sample_rate = 0
    /\ tm_pc = "idle"
    /\ tm_clock = 0
    /\ tm_start_time = 0
    /\ tm_stat_name = <<>>
    /\ tm_result = ""
    /\ tm_samples = <<>>
    /\ tm_log = <<>>

timedCfg == <<tm_stats_client, tm_prefix_arg, tm_sample_rate_arg>>

\* decorators.py:278-281, 305: timed(...) returns the decorator
TimedConfigure ==
    /\ tm_decorated = "no"
    /\ AssertHolds(tm_stats_client)
    /\ tm_prefix' = PrefixOf(tm_prefix_arg)
    /\ tm_sample_rate' = SampleRateOf(tm_sample_rate_arg)
    /\ tm_decorated' = "configured"
    /\ UNCHANGED <<retryVars, lazyVars, memoVars, classVars, timedCfg, tm_pc, tm_clock,
                   tm_start_time, tm_stat_name, tm_result, tm_samples, tm_log>>

\* decorators.py:278: the assert statement raises
TimedAssertionError ==
    /\ tm_decorated = "no"
    /\ ~AssertHolds(tm_stats_client)
    /\ tm_decorated' = "AssertionError"
    /\ UNCHANGED <<retryVars, lazyVars, memoVars, classVars, timedCfg, tm_prefix,
                   tm_sample_rate, tm_pc, tm_clock, tm_start_time, tm_stat_name,
                   tm_result, tm_samples, tm_log>>

\* decorators.py:283-304: decorator(receiver) returns with_timing
TimedWrap ==
    /\ tm_decorated = "configured"
    /\ tm_decorated' = "wrapped"
    /\ UNCHANGED <<retryVars, lazyVars, memoVars, classVars, timedCfg, tm_prefix,
                   tm_sample_rate, tm_pc, tm_clock, tm_start_time, tm_stat_name,
                   tm_result, tm_samples, tm_log>>

TimedCallsMade == Cardinality({k \in DOMAIN tm_log : tm_log[k].ev = "call"})

\* decorators.py:290-291
TimedCall ==
    /\ tm_decorated = "wrapped"
    /\ tm_pc = "idle"
    /\ TimedCallsMade < MaxTimedCalls
    /\ tm_stat_name' = StatName(tm_prefix, TimedReceiverName)
    /\ tm_start_time' = tm_clock
    /\ tm_log' = Append(tm_log, TmEv("call", "", NoneExc))
    /\ tm_pc' = "receiver"
    /\ UNCHANGED <<retryVars, lazyVars, memoVars, classVars, timedCfg, tm_decorated,
                   tm_prefix, tm_sample_rate, tm_clock, tm_result, tm_samples>>

\* decorators.py:292-296, the receiver returns
TimedReceiverReturns ==
    /\ tm_pc = "receiver"
    /\ \E v \in RetValues, dt \in ReceiverSeconds :
          /\ tm_result' = v
          /\ tm_clock' = tm_clock + dt
          /\ tm_log' = Append(tm_log, TmEv("receiver_returned", v, NoneExc))
    /\ tm_pc' = "record"
    /\ UNCHANGED <<retryVars, lazyVars, memoVars, classVars, timedCfg, tm_decorated,
                   tm_prefix, tm_sample_rate, tm_start_time, tm_stat_name, tm_samples>>

\* a faulty variant: the timing is recorded in a `finally` clause
TimedReceiverRaises_Finally ==
    /\ tm_pc = "receiver"
    /\ \E k \in Kinds, dt \in ReceiverSeconds :
          /\ tm_clock' = tm_clock + dt
          /\ tm_samples' = Append(tm_samples,
                 [stat_name |-> tm_stat_name,
                  total_time |-> TotalTime(tm_start_time, tm_clock'),
                  sample_rate |-> tm_sample_rate])
          /\ tm_log' = Append(tm_log,
                 [ev |-> "raised", val |-> "",
                  exc |-> Exc(k, "receiver", TimedCallsMade), samples |-> tm_samples'])
    /\ tm_pc' = "idle"
    /\ UNCHANGED <<retryVars, lazyVars, memoVars, classVars, timedCfg, tm_decorated,
                   tm_prefix, tm_sample_rate, tm_start_time, tm_stat_name, tm_result>>

\* decorators.py:292-296, the receiver raises: with_timing has no handler, so
\* the failure leaves it
TimedReceiverRaises ==
    /\ tm_pc = "receiver"
    /\ \E k \in Kinds, dt \in ReceiverSeconds :
          /\ tm_clock' = tm_clock + dt
          /\ tm_log' = Append(tm_log, TmEv("raised", "", Exc(k, "receiver", TimedCallsMade)))
    /\ tm_pc' = "idle"
    /\ UNCHANGED <<retryVars, lazyVars, memoVars, classVars, timedCfg, tm_decorated,
                   tm_prefix, tm_sample_rate, tm_start_time, tm_stat_name, tm_result,
                   tm_samples>>

\* decorators.py:297-302
TimedRecord ==
    /\ tm_pc = "record"
    /\ tm_samples' = Append(tm_samples,
           [stat_name |-> tm_stat_name,
            total_time |-> TotalTime(tm_start_time, tm_clock),
            sample_rate |-> tm_sample_rate])
    /\ tm_log' = Append(tm_log,
           [ev |-> "record_timing", val |-> "", exc |-> NoneExc, samples |-> tm_samples'])
    /\ tm_pc' = "return"
    /\ UNCHANGED <<retryVars, lazyVars, memoVars, classVars, timedCfg, tm_decorated,
                   tm_prefix, tm_sample_rate, tm_clock, tm_start_time, tm_stat_name,
                   tm_result>>

\* decorators.py:303
TimedReturn ==
    /\ tm_pc = "return"
    /\ tm_log' = Append(tm_log, TmEv("returned", tm_result, NoneExc))
    /\ tm_pc' = "idle"
    /\ UNCHANGED <<retryVars, lazyVars, memoVars, classVars, timedCfg, tm_decorated,
                   tm_prefix, tm_sample_rate, tm_clock, tm_start_time, tm_stat_name,
                   tm_result, tm_samples>>

TimedNext ==
    \/ TimedConfigure
    \/ TimedAssertionError
    \/ TimedWrap
    \/ TimedCall
    \/ TimedReceiverReturns
    \/ TimedReceiverRaises
    \/ TimedRecord
    \/ TimedReturn

\* ------------------------------------------------------------ specifications

\* retryable() with no arguments, not called
RetryIdle ==
    /\ max_retries = MaxRetriesOf(NoneArg)
    /\ max_attempts = MaxAttemptsOf(MaxRetriesOf(NoneArg))
    /\ handled_exception_types = HandledOf({})
    /\ sleep_times = SleepTimesOf(<<>>)
    /\ custom_should_retry = FALSE
    /\ custom_sleep_time = FALSE
    /\ pc = "idle"
    /\ attempt = 0
    /\ last_exception = NoneExc
    /\ e = NoneExc
    /\ result = ""
    /\ sleep_time = 0
    /\ outcome = NoOutcome
    /\ events = <<>>

\* The retry decorator: every configuration, one call of the wrapped callable.
Init == RetryInit /\ LazyInit /\ MemoInit /\ ClassInit /\ TimedIdle
Next == RetryNext
Spec == Init /\ [][Next]_vars

\* lazy_property: sequential accesses on two instances.
InitLazy == RetryIdle /\ LazyInit /\ MemoInit /\ ClassInit /\ TimedIdle
SpecLazy == InitLazy /\ [][LazySeqNext]_vars

\* memoized: sequential calls of two methods on two instances.
InitMemo == RetryIdle /\ LazyInit /\ MemoInit /\ ClassInit /\ TimedIdle
SpecMemo == InitMemo /\ [][MemoSeqNext]_vars

\* class_property: attribute operations on the instance and the classes.
InitClassProperty == RetryIdle /\ LazyInit /\ MemoInit /\ ClassInit /\ TimedIdle
SpecClassProperty == InitClassProperty /\ [][ClassPropertyNext]_vars

\* timed: every configuration, then calls of the wrapped function.
InitTimed == RetryIdle /\ LazyInit /\ MemoInit /\ ClassInit /\ TimedInit
SpecTimed == InitTimed /\ [][TimedNext]_vars

\* Two threads, no synchronisation, on one instance: each step of
\* lazy_property's and memoized's with_memoization is one atomic step of a
\* thread. The two decorators share no state, so a behaviour exercises one of
\* them: the first access or call decides which.
SharedInstance == "a"
SharedMethod == <<"f">>
SharedArgs == <<I1>>

ThreadsNext ==
    \/ \E t \in Threads : MemoStarted = 0 /\ LazyAccess(t, SharedInstance)
    \/ \E t \in Threads : LazyHasAttr(t)
    \/ \E t \in Threads : LazyReceiver(t)
    \/ \E t \in Threads : LazySetAttr(t)
    \/ \E t \in Threads : LazyGetAttr(t)
    \/ \E t \in Threads :
          LazyStarted = 0 /\ MemoCall(t, SharedInstance, SharedMethod, SharedArgs)
    \/ \E t \in Threads : MemoHasAttr(t)
    \/ \E t \in Threads : MemoNewCache(t)
    \/ \E t \in Threads : MemoLoad(t)
    \/ \E t \in Threads : MemoTest(t)
    \/ \E t \in Threads : MemoReceiver(t)
    \/ \E t \in Threads : MemoStore(t)
    \/ \E t \in Threads : MemoReturn(t)

InitThreads == RetryIdle /\ LazyInit /\ MemoInit /\ ClassInit /\ TimedIdle
SpecThreads == InitThreads /\ [][ThreadsNext]_vars

\* ------------------------------------------------- reading the call history

Done == pc = "done"

EventsOf(name) == SelectSeq(events, LAMBDA x : x.ev = name)
Ops == EventsOf("op")
Count(name) == Len(EventsOf(name))

\* The configured set of handled failure kinds, read off the configuration:
\* the kinds listed, or every Exception kind when Exception itself is listed.
InHandledKinds(k) ==
    \/ k \in handled_exception_types
    \/ "Exception" \in handled_exception_types /\ k # "KeyboardInterrupt"

OpFailedHandled(x) == x.exc # NoneExc /\ InHandledKinds(x.exc.kind)
OpFailedUnhandled(x) == x.exc # NoneExc /\ ~InHandledKinds(x.exc.kind)
OpSucceeded(x) == x.exc = NoneExc

\* Every on_success_callback invocation so far returned normally.
OnSuccessHookReturns ==
    \A i \in DOMAIN events : events[i].ev = "on_success" => events[i].exc = NoneExc

DefaultPolicy == ~custom_should_retry /\ ~custom_sleep_time

\* ------------------------------------------------------------------- C1

\* C1 (as stated): for every configuration max_attempts = max_retries + 1 and
\* the wrapped operation is never invoked more than max_attempts times within
\* one call.
C1_Original ==
    pc # "idle"
    => /\ max_attempts = max_retries + 1
       /\ Count("op") <= max_attempts

\* C1, where max_attempts is not negative (max_retries >= -1): the bound on
\* the number of invocations holds in every state of every call.
C1_NonNegativeAttempts ==
    max_retries >= 0 - 1
    => /\ max_attempts = max_retries + 1
       /\ Count("op") <= max_attempts

\* ------------------------------------------------------------------- C2

AllOpsFailedHandled == \A i \in DOMAIN Ops : OpFailedHandled(Ops[i])

\* C2: with the default predicate and sleep provider, max_retries = N >= 0 and
\* a schedule of at least N entries, a call whose every attempt raised a
\* handled failure made exactly N + 1 invocations, fired on_retry exactly N
\* times with attempt = 1..N in order, never fired on_success, fired
\* on_failure exactly once, last, with total_attempts = N + 1 and the failure
\* of the last attempt, and propagated that failure.
C2_AlwaysFailing ==
    (Done /\ DefaultPolicy /\ max_retries >= 0 /\ Len(sleep_times) >= max_retries
          /\ AllOpsFailedHandled)
    => /\ Len(Ops) = max_retries + 1
       /\ \A i \in DOMAIN Ops : Ops[i].n = i
       /\ Len(EventsOf("on_retry")) = max_retries
       /\ \A i \in 1..max_retries :
             /\ EventsOf("on_retry")[i].n = i
             /\ EventsOf("on_retry")[i].exc = Ops[i].exc
       /\ Count("on_success") = 0
       /\ Count("on_failure") = 1
       /\ events[Len(events)] =
             Ev("on_failure", max_retries + 1, Ops[max_retries + 1].exc, 0, "")
       /\ outcome = Raised(Ops[max_retries + 1].exc)

C2_Witness ==
    /\ Done /\ DefaultPolicy /\ AllOpsFailedHandled
    /\ max_retries = DefaultMaxRetries
    /\ sleep_times = DefaultSleepTimes
    /\ Len(Ops) = DefaultMaxRetries + 1
    /\ Count("on_retry") = DefaultMaxRetries
    /\ outcome.how = "raised"

\* ------------------------------------------------------------------- C3

\* The first k attempts raised a handled failure and attempt k + 1 returned.
FailsThenSucceeds(k) ==
    /\ Len(Ops) >= k + 1
    /\ \A j \in 1..k : OpFailedHandled(Ops[j])
    /\ OpSucceeded(Ops[k + 1])

Min(a, b) == IF a < b THEN a ELSE b

C4_UnhandledPropagates ==
    \A i \in DOMAIN events :
        (events[i].ev = "op" /\ OpFailedUnhandled(events[i]))
        => /\ i = Len(events)
           /\ Done
           /\ outcome = Raised(events[i].exc)
           /\ events[i].exc.by = "op"
           /\ (events[i].n = 1 => Len(events) = 1)

C4_Witness ==
    /\ Done
    /\ Len(events) = 1
    /\ OpFailedUnhandled(events[1])
    /\ outcome = Raised(events[1].exc)

\* ------------------------------------------------------------------- C5

\* The call returned the value the operation's last invocation returned.
ReturnedOpValue ==
    /\ outcome.how = "returned"
    /\ Len(Ops) >= 1
    /\ OpSucceeded(Ops[Len(Ops)])
    /\ outcome.val = Ops[Len(Ops)].val

\* The call propagated a failure object the operation itself raised: the
\* failure of its last invocation.
RaisedOpFailure ==
    /\ outcome.how = "raised"
    /\ Len(Ops) >= 1
    /\ Ops[Len(Ops)].exc # NoneExc
    /\ outcome.exc = Ops[Len(Ops)].exc
    /\ outcome.exc.by = "op"

\* The call propagated the IndexError of the default sleep provider's lookup
\* sleep_times[attempt - 1], made after a positive should-retry decision with
\* an index beyond the schedule.
RaisedScheduleIndexError ==
    /\ outcome.how = "raised"
    /\ outcome.exc.kind = "IndexError"
    /\ ~custom_sleep_time
    /\ events[Len(events)].ev = "sleep_time"
    /\ events[Len(events)].n >= Len(sleep_times)
    /\ events[Len(events) - 2].ev = "should_retry"
    /\ events[Len(events) - 2].val = "True"

C6_Original ==
    Done
    => /\ max_attempts = max_retries + 1
       /\ max_attempts >= 1
       /\ Count("op") >= 1

\* ------------------------------------------------------------------- C7

\* What followed the i-th event, a positive answer of the predicate about
\* attempt n: on_retry, the sleep provider, and (when it yields a duration)
\* the wait.
RetryStepsFollow(i) ==
    /\ Len(events) >= i + 2
    /\ events[i + 1] = Ev("on_retry", events[i].n, events[i].exc, 0, "")
    /\ events[i + 2].ev = "sleep_time"
    /\ events[i + 2].val # "IndexError"
          => /\ Len(events) >= i + 4
             /\ events[i + 3].ev = "sleep"

\* The call went to on_failure(attempt, failure) as its last step and
\* propagated the failure of event i.
EndsInFailureAt(j, i) ==
    /\ Len(events) = j
    /\ events[j] = Ev("on_failure", events[i].n, events[i].exc, 0, "")
    /\ outcome = Raised(events[i].exc)

\* C7 (as stated; the sleep provider is a supplied one, so no lookup can
\* fail): with a supplied predicate, after every handled failure for
\* which it returned true the operation is invoked again, also when
\* attempt >= max_attempts; after one for which it returned false nothing
\* but on_failure and propagation follows.
C7_Original ==
    (Done /\ custom_should_retry /\ custom_sleep_time)
    => \A i \in DOMAIN events :
          events[i].ev = "should_retry"
          => IF events[i].val = "True"
             THEN \E j \in DOMAIN events : j > i /\ events[j].ev = "op"
             ELSE EndsInFailureAt(i + 1, i)

\* C7 (amended): with a supplied predicate, after a handled failure for which
\* it returned true, on_retry fires and the sleep provider is consulted; if
\* it yields a duration the wait occurs and then the operation is invoked
\* again exactly when attempt < max_attempts, and otherwise the call goes to
\* on_failure and propagates that failure.  After a handled failure for which
\* it returned false nothing but on_failure and propagation follows.
C7_Amended ==
    (Done /\ custom_should_retry)
    => \A i \in DOMAIN events :
          events[i].ev = "should_retry"
          => IF events[i].val = "True"
             THEN /\ RetryStepsFollow(i)
                  /\ events[i + 2].val # "IndexError"
                        => IF events[i].n < max_attempts
                           THEN /\ events[i + 4].ev = "op"
                                /\ events[i + 4].n = events[i].n + 1
                           ELSE EndsInFailureAt(i + 4, i)
             ELSE EndsInFailureAt(i + 1, i)

C7_Witness ==
    /\ Done /\ custom_should_retry
    /\ max_retries = 1
    /\ Len(Ops) = 2
    /\ Count("should_retry") = 2
    /\ \A i \in DOMAIN events : events[i].ev = "should_retry" => events[i].val = "True"
    /\ events[Len(events)].ev = "on_failure"

\* ------------------------------------------------------------------- C8

\* The statement of C8: on_success and on_failure together fire at most once;
\* on_success fires exactly once, with the number of invocations made, iff the
\* call returns a result; on_failure fires exactly once, with the number of
\* invocations made and the last handled failure, iff the call ends by
\* propagating a handled failure; neither fires when the call ends otherwise.
C8_Body ==
       /\ Count("on_success") + Count("on_failure") <= 1
       /\ Done =>
             /\ (EventsOf("on_success") = <<Ev("on_success", Len(Ops), NoneExc, 0, "")>>)
                   <=> (outcome.how = "returned")
             /\ Count("on_success") = 0 <=> (outcome.how # "returned")
             /\ (/\ Count("on_failure") = 1
                 /\ Len(Ops) >= 1
                 /\ EventsOf("on_failure")
                       = <<Ev("on_failure", Len(Ops), Ops[Len(Ops)].exc, 0, "")>>)
                   <=> (/\ outcome.how = "raised"
                        /\ Len(Ops) >= 1
                        /\ OpFailedHandled(Ops[Len(Ops)])
                        /\ outcome.exc = Ops[Len(Ops)].exc)
             /\ Count("on_failure") = 0
                   <=> ~(/\ outcome.how = "raised"
                         /\ Len(Ops) >= 1
                         /\ OpFailedHandled(Ops[Len(Ops)])
                         /\ outcome.exc = Ops[Len(Ops)].exc)

\* C8 (as stated): the statement holds in every call of the wrapped callable
\* (hooks returning normally), whatever the configuration.
C8_Original == OnSuccessHookReturns => C8_Body

\* C8, where max_retries >= 0: the statement holds of every call whose hooks
\* return normally.
C8_ValidConfig == (OnSuccessHookReturns /\ max_retries >= 0) => C8_Body

\* C8, for every behaviour of on_success: fails as well (a raising on_success
\* hook fires without the call returning a result).
C8_AnyHook == max_retries >= 0 => C8_Body

\* ------------------------------------------------------------------- C9

LazyLogOf(i) == SelectSeq(lp_log, LAMBDA x : x.inst = i)

\* C9: over sequential accesses, the wrapped function is invoked at most once
\* per instance, by the first access; the value it returned then is the one
\* stored in that instance's slot and the one every access on that instance
\* returns, whatever the function would yield later; an instance's slot holds
\* only what was computed for that instance.
C9_LazyOnce ==
    \A i \in Instances :
        /\ Len(lp_computed[i]) <= 1
        /\ lp_slot[i] # Absent
              => /\ Len(lp_computed[i]) = 1
                 /\ lp_slot[i] = lp_computed[i][1]
        /\ \A n \in DOMAIN LazyLogOf(i) :
              /\ Len(lp_computed[i]) = 1
              /\ LazyLogOf(i)[n].ret = lp_computed[i][1]
              /\ lp_slot[i] = lp_computed[i][1]

C9_Witness ==
    /\ Len(LazyLogOf("a")) >= 2
    /\ Len(LazyLogOf("b")) >= 1
    /\ Len(lp_computed["a"]) = 1
    /\ lp_slot["a"] = "None"
    /\ lp_slot["b"] = "v2"
    /\ lp_log[1].inst = "a" /\ lp_log[2].inst = "b" /\ lp_log[3].inst = "a"
    /\ lp_log[3].ret = lp_log[1].ret

\* ------------------------------------------------------------------- C10

\* Two argument lists whose arguments stringify identically, one by one.
StringifyIdentically(xs, ys) ==
    /\ Len(xs) = Len(ys)
    /\ \A j \in DOMAIN xs : generate_arg_key(xs[j]) = generate_arg_key(ys[j])

\* The receiver invocations made for one method on one instance with
\* arguments that stringify like args.
MemoCallsLike(i, name, args) ==
    {n \in DOMAIN mz_calls :
        /\ mz_calls[n].inst = i
        /\ mz_calls[n].name = name
        /\ StringifyIdentically(mz_calls[n].args, args)}

\* C10: over sequential calls, of two calls of the same memoized method on the
\* same instance whose arguments stringify identically only the first invokes
\* the wrapped function, and the later one returns the value the first one
\* returned; the function is invoked at most once for such arguments on an
\* instance; and a call returns only a value computed on its own instance.
C10_MemoShared ==
    /\ \A q \in DOMAIN mz_log : \A p \in 1..(q - 1) :
          (/\ mz_log[p].inst = mz_log[q].inst
           /\ mz_log[p].name = mz_log[q].name
           /\ StringifyIdentically(mz_log[p].args, mz_log[q].args))
          => /\ ~mz_log[q].computed
             /\ mz_log[q].ret = mz_log[p].ret
             /\ mz_log[q].key = mz_log[p].key
    /\ \A q \in DOMAIN mz_log :
          /\ mz_log[q].ret.inst = mz_log[q].inst
          /\ Cardinality(MemoCallsLike(mz_log[q].inst, mz_log[q].name, mz_log[q].args)) <= 1
          /\ (\A p \in 1..(q - 1) : mz_log[p].inst # mz_log[q].inst) => mz_log[q].computed

C10_Witness ==
    /\ Len(mz_log) = 2
    /\ mz_log[1].inst = mz_log[2].inst
    /\ mz_log[1].name = mz_log[2].name
    /\ mz_log[1].args = <<ObjA>>
    /\ mz_log[2].args = <<ObjB>>
    /\ mz_log[1].computed /\ ~mz_log[2].computed
    /\ mz_log[2].ret = mz_log[1].ret
    /\ mz_log[2].ret.args = <<ObjA>>


\* ------------------------------------------------------------------- C11

\* The stringified arguments of a call, one string per argument.
StringifiedArgs(args) == [j \in DOMAIN args |-> generate_arg_key(args[j])]

\* C11 (as stated): two calls of the same memoized method on the same instance
\* whose argument lists have distinct stringified arguments use two
\* independent cache entries: the later call computes its own result and
\* returns it, not the value cached for the earlier call.
C11_Original ==
    \A q \in DOMAIN mz_log : \A p \in 1..(q - 1) :
        (/\ mz_log[p].inst = mz_log[q].inst
         /\ mz_log[p].name = mz_log[q].name
         /\ StringifiedArgs(mz_log[p].args) # StringifiedArgs(mz_log[q].args))
        => /\ mz_log[q].key # mz_log[p].key
           /\ mz_log[q].ret # mz_log[p].ret
           /\ mz_log[q].ret.args = mz_log[q].args

\* C11, for calls with one argument each: the statement holds (the key is the
\* name followed by that argument's string).
C11_OneArgument ==
    \A q \in DOMAIN mz_log : \A p \in 1..(q - 1) :
        (/\ mz_log[p].inst = mz_log[q].inst
         /\ mz_log[p].name = mz_log[q].name
         /\ Len(mz_log[p].args) = 1 /\ Len(mz_log[q].args) = 1
         /\ StringifiedArgs(mz_log[p].args) # StringifiedArgs(mz_log[q].args))
        => /\ mz_log[q].key # mz_log[p].key
           /\ mz_log[q].ret # mz_log[p].ret

\* ------------------------------------------------------------------- C19

\* C19 (as stated): a call of one memoized method never returns a value that
\* was computed and cached by a different memoized method of that instance.
C19_Original ==
    \A q \in DOMAIN mz_log : mz_log[q].ret.name = mz_log[q].name


\* ------------------------------------------------------------------- C14

\* Event i is a positive answer of the predicate; it was asked about the
\* attempt that has just failed and about the failure that attempt raised.
AskedAboutFailedAttempt(i) ==
    /\ i >= 2
    /\ events[i - 1].ev = "op"
    /\ events[i - 1].n = events[i].n
    /\ events[i - 1].exc = events[i].exc
    /\ OpFailedHandled(events[i - 1])

\* on_retry(attempt, failure) and sleep_time_callback(attempt - 1, failure)
\* follow event i directly.
HookThenProviderFollow(i) ==
    /\ Len(events) >= i + 2
    /\ events[i + 1] = Ev("on_retry", events[i].n, events[i].exc, 0, "")
    /\ events[i + 2].ev = "sleep_time"
    /\ events[i + 2].n = events[i].n - 1
    /\ events[i + 2].exc = events[i].exc

\* The wait for exactly the duration the provider returned follows.
WaitFollows(i) ==
    /\ Len(events) >= i + 3
    /\ events[i + 3] = Ev("sleep", events[i].n, NoneExc, events[i + 2].d, "")

\* The next invocation of the operation follows.
NextInvocationFollows(i) ==
    /\ Len(events) >= i + 4
    /\ events[i + 4].ev = "op"
    /\ events[i + 4].n = events[i].n + 1

PositiveDecisions ==
    {i \in DOMAIN events : events[i].ev = "should_retry" /\ events[i].val = "True"}

\* C14 (as stated): every positive should-retry decision is followed, with
\* nothing in between, by on_retry(attempt, failure),
\* sleep_time_provider(attempt - 1, failure), a wait of exactly the returned
\* duration, and the next invocation of the wrapped operation.
C14_Original ==
    (Done /\ OnSuccessHookReturns)
    => \A i \in PositiveDecisions :
          /\ AskedAboutFailedAttempt(i)
          /\ HookThenProviderFollow(i)
          /\ WaitFollows(i)
          /\ NextInvocationFollows(i)

\* C14 (amended): every positive should-retry decision, taken about the
\* attempt that just failed and its failure, is followed with nothing in
\* between by on_retry(attempt, failure) and
\* sleep_time_provider(attempt - 1, failure); if the provider returns a
\* duration, the wait of exactly that duration follows, and then the next
\* invocation of the operation when attempt < max_attempts and otherwise
\* on_failure and the propagation of that failure; if the default provider's
\* lookup is out of range, its IndexError ends the call at once.
C14_Amended ==
    (Done /\ OnSuccessHookReturns)
    => \A i \in PositiveDecisions :
          /\ AskedAboutFailedAttempt(i)
          /\ HookThenProviderFollow(i)
          /\ IF events[i + 2].val = "IndexError"
             THEN /\ Len(events) = i + 2
                  /\ outcome.how = "raised" /\ outcome.exc.kind = "IndexError"
             ELSE /\ WaitFollows(i)
                  /\ IF events[i].n < max_attempts
                     THEN NextInvocationFollows(i)
                     ELSE EndsInFailureAt(i + 4, i)

C14_Witness ==
    /\ Done /\ OnSuccessHookReturns /\ ~custom_should_retry /\ ~custom_sleep_time
    /\ Cardinality(PositiveDecisions) = 2
    /\ \A i \in PositiveDecisions : NextInvocationFollows(i) /\ WaitFollows(i)
    /\ EventsOf("sleep")[1].d # EventsOf("sleep")[2].d
    /\ outcome.how = "returned"

\* ------------------------------------------------------------------- C17

SuccessfulInvocations ==
    {i \in DOMAIN events : events[i].ev = "op" /\ OpSucceeded(events[i])}

\* on_success_callback has not raised a failure outside the handled kinds.
OnSuccessHookRaisesOnlyHandled ==
    \A i \in DOMAIN events :
        events[i].ev = "on_success"
        => (events[i].exc = NoneExc \/ InHandledKinds(events[i].exc.kind))

\* C17 (as stated): once the operation has returned normally, nothing but
\* on_success follows in that call (no predicate, on_retry, sleep provider,
\* wait or further invocation), also when on_success raises a failure of a
\* handled kind, and the call returns the operation's result.
C17_Original ==
    OnSuccessHookRaisesOnlyHandled
    => \A i \in SuccessfulInvocations :
          /\ \A j \in DOMAIN events : j > i => (j = i + 1 /\ events[j].ev = "on_success")
          /\ Done => outcome = Returned(events[i].val)

\* C17, for an on_success hook that returns normally: the statement holds.
C17_HookReturns ==
    OnSuccessHookReturns
    => \A i \in SuccessfulInvocations :
          /\ \A j \in DOMAIN events : j > i => (j = i + 1 /\ events[j].ev = "on_success")
          /\ Done => outcome = Returned(events[i].val)

\* ------------------------------------------------------------------- C18

SleepLookups == EventsOf("sleep_time")

\* C18: with the default predicate and the default sleep provider, the j-th
\* lookup of a call uses index j - 1 (0, 1, 2, ... without repeats or gaps),
\* every index lies in 0 .. max_retries - 1, no lookup or wait follows the
\* attempt numbered max_attempts, and a schedule with at least max_retries
\* entries is never indexed out of range.
C18_IndexInSchedule ==
    DefaultPolicy
    => /\ \A j \in DOMAIN SleepLookups :
             /\ SleepLookups[j].n = j - 1
             /\ SleepLookups[j].n >= 0
             /\ SleepLookups[j].n <= max_retries - 1
             /\ Len(sleep_times) >= max_retries
                   => /\ SleepLookups[j].val # "IndexError"
                      /\ SleepLookups[j].d = sleep_times[j]
       /\ Len(sleep_times) >= max_retries => outcome.exc.kind # "IndexError"
       /\ \A i \in DOMAIN events :
             (events[i].ev = "op" /\ events[i].n >= max_attempts)
             => \A j \in DOMAIN events :
                   j > i => events[j].ev \notin {"on_retry", "sleep_time", "sleep", "op"}

C18_Witness ==
    /\ Done /\ DefaultPolicy
    /\ max_retries = DefaultMaxRetries
    /\ sleep_times = DefaultSleepTimes
    /\ Len(SleepLookups) = DefaultMaxRetries
    /\ SleepLookups[DefaultMaxRetries].n = DefaultMaxRetries - 1
    /\ Len(Ops) = DefaultMaxRetries + 1


\* ------------------------------------------------------------------- C12

NamesTheProperty(res) ==
    /\ res.how = "AttributeError"
    /\ \E k \in DOMAIN res.msg : res.msg[k] = PropertyName

PropertyInPlace ==
    /\ cp_dict["Base"] = WrappedProperty
    /\ \A cls \in Classes : TypeLookup(cp_dict, cls) = WrappedProperty

\* C12 (as stated): every assignment to and every deletion of the attribute,
\* through the instance or through a class, fails with an error naming the
\* property; the property stays in place, and every read returns what the
\* decorated function returns for the class.
C12_Original ==
    /\ \A k \in DOMAIN cp_log :
          cp_log[k].op \in {"set", "del"} => NamesTheProperty(cp_log[k].res)
    /\ PropertyInPlace
    /\ \A k \in DOMAIN cp_log :
          cp_log[k].op = "get"
          => cp_log[k].res = CpReturned(receiver(IF cp_log[k].via = Obj THEN TypeOf(Obj)
                                                  ELSE cp_log[k].via))

\* C12, for attempts made through an instance only: the statement holds.
C12_ViaInstance ==
    (\A k \in DOMAIN cp_log : cp_log[k].op \in {"set", "del"} => cp_log[k].via = Obj)
    => C12_Original


\* ------------------------------------------------------------------- C13

\* The sink is present and has record_timing.
ValidSink == tm_stats_client = "StatsClient"

\* The sample the configuration asks for: the name is the prefix, a dot and
\* the function's name (the bare name without a prefix); the rate is the
\* configured one, 1.0 when none was given.
ConfiguredStatName ==
    IF tm_prefix_arg = PyNone THEN TimedReceiverName
    ELSE PyStrOf(tm_prefix_arg) \o <<".">> \o TimedReceiverName
ConfiguredSampleRate ==
    IF tm_sample_rate_arg.some THEN tm_sample_rate_arg.v ELSE 1000

TimedEvents(name) == SelectSeq(tm_log, LAMBDA x : x.ev = name)

\* C13: with a sink that is absent or lacks record_timing, timed(...) ends in
\* an error before anything is wrapped or called; with a valid sink, the sink
\* holds exactly one sample per call that has returned normally, named with
\* the configured prefix and carrying the configured rate (default 1.0), each
\* recorded after the receiver returned and before the wrapper returns, and
\* the wrapper returns the receiver's result.
C13_OneSamplePerReturn ==
    /\ ~ValidSink => /\ tm_decorated \in {"no", "AssertionError"}
                     /\ tm_log = <<>>
                     /\ tm_samples = <<>>
    /\ ValidSink => tm_decorated # "AssertionError"
    /\ Len(tm_samples) = Len(TimedEvents("returned")) + (IF tm_pc = "return" THEN 1 ELSE 0)
    /\ Len(tm_samples) = Len(TimedEvents("record_timing"))
    /\ \A k \in DOMAIN tm_samples :
          /\ tm_samples[k].stat_name = ConfiguredStatName
          /\ tm_samples[k].sample_rate = ConfiguredSampleRate
          /\ tm_samples[k].total_time >= 0
    /\ \A k \in DOMAIN tm_log :
          tm_log[k].ev = "returned"
          => /\ k >= 4
             /\ tm_log[k - 1].ev = "record_timing"
             /\ tm_log[k - 2].ev = "receiver_returned"
             /\ tm_log[k - 3].ev = "call"
             /\ tm_log[k].val = tm_log[k - 2].val
             /\ tm_log[k - 1].samples = Append(tm_log[k - 2].samples, tm_samples[Len(tm_log[k - 1].samples)])
    /\ \A k \in DOMAIN tm_log :
          tm_log[k].ev = "record_timing"
          => k >= 2 /\ tm_log[k - 1].ev = "receiver_returned"

C13_Witness ==
    /\ ValidSink
    /\ tm_prefix_arg = PyInt(7)
    /\ tm_sample_rate_arg = IntArg(0)
    /\ Len(TimedEvents("returned")) = 2
    /\ Len(TimedEvents("raised")) = 1
    /\ Len(tm_samples) = 2
    /\ TimedEvents("returned")[1].val # TimedEvents("returned")[2].val
    /\ tm_samples[1].total_time # tm_samples[2].total_time

C13_WitnessNoSink ==
    /\ ~ValidSink
    /\ tm_decorated = "AssertionError"

\* ------------------------------------------------------------------- C16

\* C16: when the receiver raises, the wrapper's caller sees that failure, no
\* sample was recorded for the call, and the sink's samples are exactly
\* those it held when the call began.
C16_NoSampleOnFailure ==
    \A k \in DOMAIN tm_log :
        tm_log[k].ev = "raised"
        => /\ k >= 2
           /\ tm_log[k - 1].ev = "call"
           /\ tm_log[k].exc.by = "receiver"
           /\ tm_log[k].exc.kind \in Kinds
           /\ tm_log[k].samples = tm_log[k - 1].samples
           /\ (k = Len(tm_log) /\ tm_pc = "idle") => tm_samples = tm_log[k - 1].samples

C16_Witness ==
    /\ Len(tm_log) >= 2
    /\ tm_log[Len(tm_log)].ev = "raised"
    /\ tm_pc = "idle"
    /\ Len(tm_samples) = 1
    /\ Len(TimedEvents("raised")) = 2


\* ------------------------------------------------------------------- C15

RangeOf(s) == {s[k] : k \in DOMAIN s}

HasLazyValue(slot) == slot # Absent
LazyReturns(i) == {lp_log[k].ret : k \in {j \in DOMAIN lp_log : lp_log[j].inst = i}}
MemoReturns(i, key) ==
    {mz_log[k].ret : k \in {j \in DOMAIN mz_log : mz_log[j].inst = i /\ mz_log[j].key = key}}
\* what the receiver has produced for an instance and a key
MemoComputed(i, key) ==
    {c \in RangeOf(mz_calls) : c.inst = i /\ generate_key(c.name, c.args) = key}
MemoKeysUsed == {mz_log[k].key : k \in DOMAIN mz_log}

\* C15 (as stated): under every interleaving of the two threads, no two
\* accesses of the property on one instance, and no two calls of the method
\* with the same arguments on one instance, return different values.
C15_Original ==
    /\ \A i \in Instances : Cardinality(LazyReturns(i)) <= 1
    /\ \A i \in Instances : \A key \in MemoKeysUsed : Cardinality(MemoReturns(i, key)) <= 1

\* C15 (amended): under every interleaving, the slot and every cache entry
\* hold, and every access returns, a value the computation actually produced
\* for that instance (and key); each thread runs a lazy property's
\* computation at most once per instance; and all accesses return the same
\* value whenever the computations made for the instance (and key) yielded
\* one value. A stored value can be replaced by a racing first access.
C15_Amended ==
    /\ \A i \in Instances :
          /\ HasLazyValue(lp_slot[i]) => lp_slot[i] \in RangeOf(lp_computed[i])
          /\ LazyReturns(i) \subseteq RangeOf(lp_computed[i])
          /\ Len(lp_computed[i]) <= Cardinality(Threads)
          /\ Cardinality(RangeOf(lp_computed[i])) <= 1 => Cardinality(LazyReturns(i)) <= 1
    /\ \A h \in DOMAIN mz_heap : \A key \in DOMAIN mz_heap[h] :
          mz_heap[h][key] \in MemoComputed(mz_heap[h][key].inst, key)
    /\ \A i \in Instances : \A key \in MemoKeysUsed :
          /\ MemoReturns(i, key) \subseteq MemoComputed(i, key)
          /\ Cardinality(MemoComputed(i, key)) <= 1 => Cardinality(MemoReturns(i, key)) <= 1

\* Both threads found the slot missing, computed different values, and
\* their accesses returned different values.
C15_Witness ==
    /\ Len(lp_computed[SharedInstance]) = 2
    /\ Cardinality(LazyReturns(SharedInstance)) = 2
    /\ \E p, q \in DOMAIN lp_log :
          /\ lp_log[p].thread # lp_log[q].thread
          /\ lp_log[p].ret # lp_log[q].ret

====
